---- MODULE Spec2Model ----
(***************************************************************************)
(* Model of the gemma-chat-app worker protocol: the inference worker       *)
(* (src/src/modelWorker.ts), the ChatManager controller                    *)
(* (src/src/chatManager.ts), the page glue (src/src/main.ts) and the two   *)
(* postMessage channels between them.                                      *)
(*                                                                         *)
(* Every JavaScript task (one message handler run up to its next await,    *)
(* one engine callback, one continuation after an await) is one action.    *)
(* The engine is a black box: it may produce a fragment, return or raise.  *)
(***************************************************************************)
EXTENDS Integers, Sequences, FiniteSets, TLC

\* ------------------------------------------------------------------ bounds
MaxRequests == 3      \* submits, stop clicks and resets in one behaviour
MaxLiveRequests == 2  \* the same, in the behaviours of LiveSpec
MaxFrags == 2         \* fragments the engine produces in one behaviour
MaxProgress == 1      \* progress callbacks of the engine loads in one behaviour
MaxInits == 2         \* engine loads started in one behaviour
MaxPosts == 2         \* init, generate, stop and reset messages in one behaviour
                      \* of WorkerSpec, the first init included
MaxUnknown == 1       \* messages of unknown type in one behaviour of WorkerSpec
MaxLongRequests == 4  \* submits, stop clicks and resets in one behaviour of LongSpec
MaxFnHist == 7        \* length of the arbitrary histories fed to context assembly

\* --------------------------------------------------------- program constants
HistoryCap == 10   \* messageHistory.length > 10 => slice(-10)
ContextTurns == 6  \* messageHistory.slice(-6)

VARIABLES
    \* worker (modelWorker.ts module state)
    generator,               \* "null" | "loaded"
    isInitialized,           \* BOOLEAN
    messageHistory,          \* sequence of turns
    currentAbortController,  \* 0 = null, k = the controller created by call k
    aborted,                 \* controllers whose signal is aborted
    inits,                   \* initializeModel invocations (Promise.race state)
    calls,                   \* generateResponse invocations, by call id
    \* channels (postMessage queues)
    toWorker,                \* controller -> worker, not yet handled
    toMain,                  \* worker -> controller, not yet handled
    \* controller (ChatManager + main.ts)
    appState,                \* "loading" | "ready" | "failed" (initialize() promise)
    isGenerating,
    shouldStop,
    inputDisabled,           \* chatInput.disabled
    sendDisabled,            \* sendButton.disabled
    stopVisible,             \* stop button shown instead of send button
    placeholders,            \* ai-message bubbles created by generateResponse
    \* dispatch counters
    nCalls, nStops, nResets, nInits, nOther,
    \* observers: what has been posted and received, per call
    terms,                   \* terminal events posted for each call, by type
    maxTokenCall,            \* latest call a token has been posted for
    lastDone,                \* calls completed since the last reset or engine call
    got,                     \* token events the controller received, per call
    gotTerm,                 \* complete/error events the controller received, per call
    \* context assembly applied to an arbitrary history
    fnHist, fnMsg, fnOut

workerVars == <<generator, isInitialized, messageHistory, currentAbortController,
                aborted, inits, calls>>
ctrlVars == <<appState, isGenerating, shouldStop, inputDisabled, sendDisabled,
              stopVisible,
              placeholders>>
countVars == <<nCalls, nStops, nResets, nInits, nOther>>
postVars == <<terms, maxTokenCall, lastDone>>
recvVars == <<got, gotTerm>>
fnVars == <<fnHist, fnMsg, fnOut>>
vars == <<workerVars, toWorker, toMain, ctrlVars, countVars, postVars, recvVars,
          fnVars>>

CallIds == 1..MaxRequests

\* ------------------------------------------------------------------- turns
\* A user message is identified by the call that carries it; the code never
\* inspects message text, so distinct calls carry distinct texts.
UserTurn(m) == [role |-> "user", content |-> <<"msg", m>>]
AssistantTurn(t) == [role |-> "assistant", content |-> t]
Apology == <<"apology", 0>>

\* generatedText: the trimmed reply, or the apology when nothing was extracted
GeneratedText(k, usable) == IF usable THEN <<"reply", k>> ELSE Apology

\* Array.prototype.slice(-n)
SliceLast(s, n) == IF Len(s) > n THEN SubSeq(s, Len(s) - n + 1, Len(s)) ELSE s

\* messages = messageHistory.slice(-6) followed by the new user message
Messages(history, m) == Append(SliceLast(history, ContextTurns), UserTurn(m))

\* expectedRole for the zero-based index i of the candidate sequence
ExpectedRole(i) == IF i % 2 = 0 THEN "user" ELSE "assistant"

RECURSIVE ValidFrom(_, _)
ValidFrom(msgs, i) ==
    IF i > Len(msgs) THEN <<>>
    ELSE (IF msgs[i].role # ExpectedRole(i - 1) THEN <<>> ELSE <<msgs[i]>>)
         \o ValidFrom(msgs, i + 1)

ValidMessages(msgs) == ValidFrom(msgs, 1)

FinalMessages(history, m) ==
    LET v == ValidMessages(Messages(history, m))
    IN  IF Len(v) > 0 /\ v[Len(v)].role = "user" THEN v ELSE <<UserTurn(m)>>

\* (the history update with an odd cut, slice(-9))
CommitOddCut(history, m, text) ==
    LET h == history \o <<UserTurn(m), AssistantTurn(text)>>
    IN  IF Len(h) > HistoryCap THEN SliceLast(h, HistoryCap - 1) ELSE h

\* (the history update with the two pushes in the other order)
CommitReplyFirst(history, m, text) ==
    LET h == history \o <<AssistantTurn(text), UserTurn(m)>>
    IN  IF Len(h) > HistoryCap THEN SliceLast(h, HistoryCap) ELSE h

\* (the history update without the push of the assistant turn)
CommitWithoutReply(history, m, text) ==
    LET h == Append(history, UserTurn(m))
    IN  IF Len(h) > HistoryCap THEN SliceLast(h, HistoryCap) ELSE h

\* (the history update with the cut taken before the two pushes)
CommitCutsBeforePush(history, m, text) ==
    SliceLast(history, HistoryCap) \o <<UserTurn(m), AssistantTurn(text)>>

\* history update after a successful generation: push user, push assistant,
\* keep the last 10
Commit(history, m, text) ==
    LET h == history \o <<UserTurn(m), AssistantTurn(text)>>
    IN  IF Len(h) > HistoryCap THEN SliceLast(h, HistoryCap) ELSE h

\* ---------------------------------------------------------------- messages
\* a message to the worker: its type, the call it carries the text of (0: none)
\* and its data: "message" (data.message is a text with a visible character),
\* "blank" (data.message is empty or white space), "empty" (data has no
\* message) or "absent" (no data at all)
Msg(t, k, d) == [type |-> t, call |-> k, data |-> d]

\* ------------------------------------------------------------------ events
\* type, the call the event belongs to (0: none) and the fragment number
Ev(t, k, i) == [type |-> t, call |-> k, idx |-> i]

NoCall == [status |-> "none", ctx |-> <<>>, frags |-> 0, sent |-> 0,
           histAtStart |-> <<>>, busyAtStart |-> FALSE, stopRequested |-> FALSE,
           resetRequested |-> FALSE]

NoTerms == [complete |-> 0, error |-> 0, stopped |-> 0]

Running == {k \in CallIds : calls[k].status = "running"}

\* requests the page has dispatched so far
Requests == nCalls + nStops + nResets

RECURSIVE SumFrags(_)
SumFrags(S) ==
    IF S = {} THEN 0
    ELSE LET k == CHOOSE x \in S : TRUE
         IN  calls[k].frags + SumFrags(S \ {k})

\* fragments the engine has produced so far, over all calls
TotalFrags == SumFrags(CallIds)

RECURSIVE SumProgress(_)
SumProgress(S) ==
    IF S = {} THEN 0
    ELSE LET i == CHOOSE x \in S : TRUE
         IN  inits[i].progress + SumProgress(S \ {i})

\* progress callbacks the engine loads have made so far
TotalProgress == SumProgress(DOMAIN inits)

\* -------------------------------------------------------------------- Init
\* the history left by five earlier exchanges, oldest first: the state of a
\* worker that has served them, full to the cap
PriorHistory ==
    [i \in 1..HistoryCap |->
        IF i % 2 = 1 THEN UserTurn(((i + 1) \div 2) - 6)
                     ELSE AssistantTurn(<<"reply", (i \div 2) - 6>>)]

WorkerInit ==
    /\ generator = "null"
    /\ isInitialized = FALSE
    /\ currentAbortController = 0
    /\ aborted = {}
    /\ inits = <<>>
    /\ calls = [k \in CallIds |-> NoCall]
    /\ toMain = <<>>
    /\ terms = [k \in CallIds |-> NoTerms]
    /\ maxTokenCall = 0
    /\ lastDone = {}

CtrlInit ==
    /\ appState = "loading"
    /\ isGenerating = FALSE
    /\ shouldStop = FALSE
    /\ inputDisabled = TRUE
    /\ sendDisabled = TRUE
    /\ stopVisible = FALSE
    /\ placeholders = <<>>
    /\ got = [k \in CallIds |-> 0]
    /\ gotTerm = [k \in CallIds |-> 0]

FnIdle == fnHist = <<>> /\ fnMsg = 0 /\ fnOut = <<>>

\* the page has run initApp up to `await chatManager.initialize()`
InitWith(history) ==
    /\ WorkerInit /\ CtrlInit /\ FnIdle
    /\ messageHistory = history
    /\ nCalls = 0 /\ nStops = 0 /\ nResets = 0 /\ nInits = 1 /\ nOther = 0
    /\ toWorker = <<Msg("init", 0, "absent")>>

\* a freshly started worker
FreshInit == InitWith(<<>>)

\* a fresh worker, or one that already holds a full history
Init == \E history \in {<<>>, PriorHistory} : InitWith(history)

\* ---------------------------------------------------- worker: message listener
\* case 'init': initializeModel() up to the awaited Promise.race
HandleInit ==
    /\ IF isInitialized
       THEN UNCHANGED <<inits, toMain>>
       ELSE /\ inits' = Append(inits, [race |-> "pending", pipe |-> "running",
                                        progress |-> 0])
            /\ toMain' = Append(toMain, Ev("progress", 0, 0))
    /\ UNCHANGED <<generator, isInitialized, messageHistory,
                   currentAbortController, aborted, calls, postVars>>

\* (generateResponse whose not-initialized branch lacks its return)
HandleGenerateNoReturn(k) ==
    /\ currentAbortController' = k
    /\ lastDone' = {}
    /\ calls' = [calls EXCEPT ![k] =
            [status |-> "running",
             ctx |-> FinalMessages(messageHistory, k),
             frags |-> 0, sent |-> 0,
             histAtStart |-> messageHistory,
             busyAtStart |-> (Running # {}),
             stopRequested |-> FALSE,
             resetRequested |-> FALSE]]
    /\ IF generator = "null"
       THEN /\ toMain' = Append(toMain, Ev("error", k, 0))
            /\ terms' = [terms EXCEPT ![k].error = @ + 1]
       ELSE UNCHANGED <<toMain, terms>>
    /\ UNCHANGED <<generator, isInitialized, messageHistory, aborted, inits,
                   maxTokenCall>>

\* (generateResponse that keeps an abort controller it finds)
HandleGenerateKeepsController(k) ==
    /\ IF generator = "null"
       THEN /\ toMain' = Append(toMain, Ev("error", k, 0))
            /\ terms' = [terms EXCEPT ![k].error = @ + 1]
            /\ calls' = [calls EXCEPT ![k].status = "rejected",
                                      ![k].histAtStart = messageHistory,
                                      ![k].busyAtStart = (Running # {})]
            /\ UNCHANGED <<currentAbortController, lastDone>>
       ELSE /\ currentAbortController' =
                   IF currentAbortController = 0 THEN k ELSE currentAbortController
            /\ lastDone' = {}
            /\ calls' = [calls EXCEPT ![k] =
                    [status |-> "running",
                     ctx |-> FinalMessages(messageHistory, k),
                     frags |-> 0, sent |-> 0,
                     histAtStart |-> messageHistory,
                     busyAtStart |-> (Running # {}),
                     stopRequested |-> FALSE,
                     resetRequested |-> FALSE]]
            /\ UNCHANGED <<toMain, terms>>
    /\ UNCHANGED <<generator, isInitialized, messageHistory, aborted, inits,
                   maxTokenCall>>

\* case 'generate': generateResponse(data.message) up to the awaited engine call
HandleGenerate(k) ==
    /\ IF generator = "null"
       THEN /\ toMain' = Append(toMain, Ev("error", k, 0))
            /\ terms' = [terms EXCEPT ![k].error = @ + 1]
            /\ calls' = [calls EXCEPT ![k].status = "rejected",
                                      ![k].histAtStart = messageHistory,
                                      ![k].busyAtStart = (Running # {})]
            /\ UNCHANGED <<currentAbortController, lastDone>>
       ELSE /\ currentAbortController' = k
            /\ lastDone' = {}
            /\ calls' = [calls EXCEPT ![k] =
                    [status |-> "running",
                     ctx |-> FinalMessages(messageHistory, k),
                     frags |-> 0, sent |-> 0,
                     histAtStart |-> messageHistory,
                     busyAtStart |-> (Running # {}),
                     stopRequested |-> FALSE,
                     resetRequested |-> FALSE]]
            /\ UNCHANGED <<toMain, terms>>
    /\ UNCHANGED <<generator, isInitialized, messageHistory, aborted, inits,
                   maxTokenCall>>

\* (a reset that leaves the history alone while a generation is in flight)
HandleResetIfIdle ==
    /\ messageHistory' = IF Running = {} THEN <<>> ELSE messageHistory
    /\ toMain' = Append(toMain, Ev("reset_complete", 0, 0))
    /\ calls' = [k \in CallIds |->
                    IF k \in Running
                    THEN [calls[k] EXCEPT !.resetRequested = TRUE]
                    ELSE calls[k]]
    /\ lastDone' = {}
    /\ UNCHANGED <<generator, isInitialized, currentAbortController, aborted,
                   inits, terms, maxTokenCall>>

\* case 'reset'
HandleReset ==
    /\ messageHistory' = <<>>
    /\ toMain' = Append(toMain, Ev("reset_complete", 0, 0))
    /\ calls' = [k \in CallIds |->
                    IF k \in Running
                    THEN [calls[k] EXCEPT !.resetRequested = TRUE]
                    ELSE calls[k]]
    /\ lastDone' = {}
    /\ UNCHANGED <<generator, isInitialized, currentAbortController, aborted,
                   inits, terms, maxTokenCall>>

\* the generation a stop is aimed at: the one in flight that owns the
\* current controller, if any
StopTarget ==
    IF currentAbortController # 0 /\ currentAbortController \in Running
    THEN currentAbortController ELSE 0

\* case 'stop'
HandleStop ==
    /\ aborted' = IF currentAbortController # 0
                  THEN aborted \cup {currentAbortController} ELSE aborted
    /\ toMain' = Append(toMain, Ev("stopped", StopTarget, 0))
    /\ terms' = [k \in CallIds |->
                    IF k = StopTarget
                    THEN [terms[k] EXCEPT !.stopped = @ + 1]
                    ELSE terms[k]]
    /\ calls' = [k \in CallIds |->
                    IF k \in Running
                    THEN [calls[k] EXCEPT !.stopRequested = TRUE]
                    ELSE calls[k]]
    /\ UNCHANGED <<generator, isInitialized, messageHistory,
                   currentAbortController, inits, maxTokenCall, lastDone>>

\* case 'generate' of a message without data: reading data.message throws in
\* the listener before generateResponse is called, and nothing catches it
HandleGenerateNoData ==
    UNCHANGED <<generator, isInitialized, messageHistory, currentAbortController,
                aborted, inits, calls, toMain, postVars>>

\* (a default branch that answers an unknown type with an error event)
HandleUnknownReplies ==
    /\ toMain' = Append(toMain, Ev("error", 0, 0))
    /\ UNCHANGED <<generator, isInitialized, messageHistory, currentAbortController,
                   aborted, inits, calls, postVars>>

\* default: console.warn
HandleUnknown ==
    UNCHANGED <<generator, isInitialized, messageHistory, currentAbortController,
                aborted, inits, calls, toMain, postVars>>

\* switch (type); a generate whose data has no message calls
\* generateResponse(undefined)
Handle(m) ==
    CASE m.type = "init" -> HandleInit
      [] m.type = "generate" /\ m.data = "absent" -> HandleGenerateNoData
      [] m.type = "generate" /\ m.data # "absent" -> HandleGenerate(m.call)
      [] m.type = "reset" -> HandleReset
      [] m.type = "stop" -> HandleStop
      [] OTHER -> HandleUnknown

\* the listener takes the next message of the queue
WorkerReceive ==
    /\ toWorker # <<>>
    /\ Handle(Head(toWorker))
    /\ toWorker' = Tail(toWorker)
    /\ UNCHANGED <<ctrlVars, countVars, recvVars, fnVars>>

\* ------------------------------------------------- worker: engine load tasks
\* progress_callback relays a progress report of the running pipeline load
PipelineProgress(i) ==
    /\ i \in DOMAIN inits
    /\ inits[i].pipe = "running"
    /\ TotalProgress < MaxProgress
    /\ inits' = [inits EXCEPT ![i].progress = @ + 1]
    /\ toMain' = Append(toMain, Ev("progress", 0, inits[i].progress + 1))
    /\ UNCHANGED <<generator, isInitialized, messageHistory,
                   currentAbortController, aborted, calls, postVars>>
    /\ UNCHANGED <<toWorker, ctrlVars, countVars, recvVars, fnVars>>

\* (a load whose result is taken although the race is already settled)
PipelineResolveLate(i) ==
    /\ i \in DOMAIN inits
    /\ inits[i].pipe = "running"
    /\ inits' = [inits EXCEPT ![i].pipe = "done",
                               ![i].race = IF @ = "pending" THEN "resolved" ELSE @]
    /\ generator' = "loaded"
    /\ isInitialized' = TRUE
    /\ toMain' = Append(toMain, Ev("ready", 0, 0))
    /\ UNCHANGED <<messageHistory, currentAbortController, aborted, calls, postVars>>
    /\ UNCHANGED <<toWorker, ctrlVars, countVars, recvVars, fnVars>>

\* pipeline(...) resolves; the race takes it only if the timeout has not fired
PipelineResolve(i) ==
    /\ i \in DOMAIN inits
    /\ inits[i].pipe = "running"
    /\ inits' = [inits EXCEPT ![i].pipe = "done",
                               ![i].race = IF @ = "pending" THEN "resolved" ELSE @]
    /\ IF inits[i].race = "pending"
       THEN /\ generator' = "loaded"
            /\ isInitialized' = TRUE
            /\ toMain' = Append(toMain, Ev("ready", 0, 0))
       ELSE UNCHANGED <<generator, isInitialized, toMain>>
    /\ UNCHANGED <<messageHistory, currentAbortController, aborted, calls, postVars>>
    /\ UNCHANGED <<toWorker, ctrlVars, countVars, recvVars, fnVars>>

\* pipeline(...) rejects
PipelineReject(i) ==
    /\ i \in DOMAIN inits
    /\ inits[i].pipe = "running"
    /\ inits' = [inits EXCEPT ![i].pipe = "done",
                               ![i].race = IF @ = "pending" THEN "rejected" ELSE @]
    /\ IF inits[i].race = "pending"
       THEN toMain' = Append(toMain, Ev("error", 0, 0))
       ELSE UNCHANGED toMain
    /\ UNCHANGED <<generator, isInitialized, messageHistory,
                   currentAbortController, aborted, calls, postVars>>
    /\ UNCHANGED <<toWorker, ctrlVars, countVars, recvVars, fnVars>>

\* timeoutPromise rejects after INIT_TIMEOUT
InitTimeout(i) ==
    /\ i \in DOMAIN inits
    /\ inits[i].race = "pending"
    /\ inits' = [inits EXCEPT ![i].race = "rejected"]
    /\ toMain' = Append(toMain, Ev("error", 0, 0))
    /\ UNCHANGED <<generator, isInitialized, messageHistory,
                   currentAbortController, aborted, calls, postVars>>
    /\ UNCHANGED <<toWorker, ctrlVars, countVars, recvVars, fnVars>>

\* ---------------------------------------------------- worker: engine call tasks
\* the signal the fragment callback consults: the current controller's
CallbackAborts == currentAbortController # 0 /\ currentAbortController \in aborted

\* (a callback that forwards the fragment twice)
TokenEventsTwice(k, i) == <<Ev("token", k, i), Ev("token", k, i)>>

\* what the fragment callback posts for the i-th forwarded fragment of call k
TokenEvents(k, i) == <<Ev("token", k, i)>>

\* the engine produces a fragment and runs callback_function; a throw from the
\* callback rejects the engine call and lands in the catch block
EngineFragment(k) ==
    /\ k \in Running
    /\ TotalFrags < MaxFrags
    /\ IF CallbackAborts
       THEN /\ calls' = [calls EXCEPT ![k].status = "aborted", ![k].frags = @ + 1]
            /\ toMain' = Append(toMain, Ev("error", k, 0))
            /\ terms' = [terms EXCEPT ![k].error = @ + 1]
            /\ UNCHANGED maxTokenCall
       ELSE /\ calls' = [calls EXCEPT ![k].frags = @ + 1, ![k].sent = @ + 1]
            /\ toMain' = toMain \o TokenEvents(k, calls[k].sent + 1)
            /\ maxTokenCall' = IF k > maxTokenCall THEN k ELSE maxTokenCall
            /\ UNCHANGED terms
    /\ UNCHANGED <<generator, isInitialized, messageHistory,
                   currentAbortController, aborted, inits, lastDone>>
    /\ UNCHANGED <<toWorker, ctrlVars, countVars, recvVars, fnVars>>

\* (a completion that posts complete without the history update)
EngineReturnNoCommit(k, usable) ==
    /\ k \in Running
    /\ calls' = [calls EXCEPT ![k].status = "complete"]
    /\ toMain' = Append(toMain, Ev("complete", k, 0))
    /\ terms' = [terms EXCEPT ![k].complete = @ + 1]
    /\ lastDone' = lastDone \cup {k}
    /\ UNCHANGED <<generator, isInitialized, messageHistory, currentAbortController,
                   aborted, inits, maxTokenCall>>
    /\ UNCHANGED <<toWorker, ctrlVars, countVars, recvVars, fnVars>>

\* the engine call resolves: extract the reply, update the history, post complete
EngineReturn(k, usable) ==
    /\ k \in Running
    /\ messageHistory' = Commit(messageHistory, k, GeneratedText(k, usable))
    /\ calls' = [calls EXCEPT ![k].status = "complete"]
    /\ toMain' = Append(toMain, Ev("complete", k, 0))
    /\ terms' = [terms EXCEPT ![k].complete = @ + 1]
    /\ lastDone' = lastDone \cup {k}
    /\ UNCHANGED <<generator, isInitialized, currentAbortController, aborted,
                   inits, maxTokenCall>>
    /\ UNCHANGED <<toWorker, ctrlVars, countVars, recvVars, fnVars>>

\* (the catch block without its postMessage)
EngineRaiseSilent(k) ==
    /\ k \in Running
    /\ calls' = [calls EXCEPT ![k].status = "failed"]
    /\ UNCHANGED <<generator, isInitialized, messageHistory,
                   currentAbortController, aborted, inits, toMain, postVars>>
    /\ UNCHANGED <<toWorker, ctrlVars, countVars, recvVars, fnVars>>

\* (a catch block that also drops the generator)
EngineRaiseDropsGenerator(k) ==
    /\ k \in Running
    /\ calls' = [calls EXCEPT ![k].status = "failed"]
    /\ toMain' = Append(toMain, Ev("error", k, 0))
    /\ terms' = [terms EXCEPT ![k].error = @ + 1]
    /\ generator' = "null"
    /\ UNCHANGED <<isInitialized, messageHistory,
                   currentAbortController, aborted, inits, maxTokenCall, lastDone>>
    /\ UNCHANGED <<toWorker, ctrlVars, countVars, recvVars, fnVars>>

\* the engine call rejects for a reason of its own, or extracting the reply
\* throws: the catch block posts error
EngineRaise(k) ==
    /\ k \in Running
    /\ calls' = [calls EXCEPT ![k].status = "failed"]
    /\ toMain' = Append(toMain, Ev("error", k, 0))
    /\ terms' = [terms EXCEPT ![k].error = @ + 1]
    /\ UNCHANGED <<generator, isInitialized, messageHistory,
                   currentAbortController, aborted, inits, maxTokenCall, lastDone>>
    /\ UNCHANGED <<toWorker, ctrlVars, countVars, recvVars, fnVars>>

\* ------------------------------------------------------------- controller
\* resetUI(): input enabled, send button back
\* (both are assigned by every caller below)

\* texts of the chat input: sequences of characters, " " being white space
Texts == {<<>>, <<" ">>, <<"h">>, <<" ", "h", " ">>}

RECURSIVE TrimStart(_)
TrimStart(t) == IF t # <<>> /\ Head(t) = " " THEN TrimStart(Tail(t)) ELSE t

RECURSIVE TrimEnd(_)
TrimEnd(t) ==
    IF t # <<>> /\ t[Len(t)] = " " THEN TrimEnd(SubSeq(t, 1, Len(t) - 1)) ELSE t

\* String.prototype.trim()
Trim(t) == TrimEnd(TrimStart(t))

\* what data.message of the dispatched request is
TextKind(t) == IF Trim(t) = <<>> THEN "blank" ELSE "message"

\* ChatManager.generateResponse(userMessage) -> startTimer
Dispatch(userMessage) ==
    /\ nCalls' = nCalls + 1
    /\ isGenerating' = TRUE
    /\ shouldStop' = FALSE
    /\ inputDisabled' = TRUE
    /\ stopVisible' = TRUE
    /\ placeholders' = Append(placeholders,
                              [call |-> nCalls + 1, hasId |-> TRUE, text |-> <<>>])
    /\ toWorker' = Append(toWorker,
                          Msg("generate", nCalls + 1, TextKind(userMessage)))
    /\ UNCHANGED <<appState, sendDisabled, nStops, nResets, nInits, nOther>>
    /\ UNCHANGED <<workerVars, toMain, postVars, recvVars, fnVars>>

\* (sendMessage testing the raw value of the input, without trim)
SendMessageNoTrim(text) ==
    IF text = <<>> \/ isGenerating THEN UNCHANGED vars ELSE Dispatch(text)

\* sendMessage(): message = chatInput.value.trim();
\* if (!message || chatManager.isGenerating) return
SendMessage(text) ==
    LET message == Trim(text)
    IN  IF message = <<>> \/ isGenerating THEN UNCHANGED vars ELSE Dispatch(message)

\* (send handlers that are registered before initialize() has resolved)
SubmitAnytime(budget) ==
    /\ Requests < budget
    /\ \E text \in Texts : SendMessage(text)

\* click on send or Enter in the chat input, whatever the input holds; the
\* handlers are registered once initialize() has resolved
Submit(budget) ==
    /\ Requests < budget
    /\ appState = "ready"
    /\ \E text \in Texts : SendMessage(text)

\* stopButton.onclick -> stopGeneration()
ClickStop(budget) ==
    /\ Requests < budget
    /\ stopVisible
    /\ nStops' = nStops + 1
    /\ shouldStop' = TRUE
    /\ isGenerating' = FALSE
    /\ toWorker' = Append(toWorker, Msg("stop", 0, "absent"))
    /\ inputDisabled' = FALSE
    /\ sendDisabled' = FALSE
    /\ stopVisible' = FALSE
    /\ UNCHANGED <<appState, placeholders, nCalls, nResets, nInits, nOther>>
    /\ UNCHANGED <<workerVars, toMain, postVars, recvVars, fnVars>>

\* resetConversation()
ResetConversation(budget) ==
    /\ Requests < budget
    /\ nResets' = nResets + 1
    /\ toWorker' = Append(toWorker, Msg("reset", 0, "absent"))
    /\ UNCHANGED <<ctrlVars, nCalls, nStops, nInits, nOther>>
    /\ UNCHANGED <<workerVars, toMain, postVars, recvVars, fnVars>>

\* document.getElementById('current-ai-message'): the first bubble with the id
CurrentMessage ==
    LET S == {i \in 1..Len(placeholders) : placeholders[i].hasId}
    IN  IF S = {} THEN 0 ELSE CHOOSE i \in S : \A j \in S : i <= j

\* case 'ready': resolve(); initApp continues and enables the input
OnReady ==
    /\ IF appState = "loading"
       THEN appState' = "ready" /\ inputDisabled' = FALSE /\ sendDisabled' = FALSE
       ELSE UNCHANGED <<appState, inputDisabled, sendDisabled>>
    /\ UNCHANGED <<isGenerating, shouldStop, stopVisible, placeholders, recvVars>>

\* case 'token': appendToCurrentMessage(data.token)
OnToken(e) ==
    /\ placeholders' = IF CurrentMessage = 0 THEN placeholders
                       ELSE [placeholders EXCEPT ![CurrentMessage].text =
                                Append(@, <<e.call, e.idx>>)]
    /\ got' = [got EXCEPT ![e.call] = @ + 1]
    /\ UNCHANGED <<appState, isGenerating, shouldStop, inputDisabled, sendDisabled,
                   stopVisible, gotTerm>>

\* case 'complete': completeGeneration()
OnComplete(e) ==
    /\ IF shouldStop
       THEN UNCHANGED <<isGenerating, placeholders, inputDisabled, sendDisabled,
                        stopVisible>>
       ELSE /\ isGenerating' = FALSE
            /\ placeholders' = IF CurrentMessage = 0 THEN placeholders
                               ELSE [placeholders EXCEPT ![CurrentMessage].hasId = FALSE]
            /\ inputDisabled' = FALSE
            /\ sendDisabled' = FALSE
            /\ stopVisible' = FALSE
    /\ gotTerm' = [gotTerm EXCEPT ![e.call] = @ + 1]
    /\ UNCHANGED <<appState, shouldStop, got>>

\* case 'error': handleError(error); reject(...)
OnError(e) ==
    /\ isGenerating' = FALSE
    /\ inputDisabled' = FALSE
    /\ sendDisabled' = FALSE
    /\ stopVisible' = FALSE
    /\ appState' = IF appState = "loading" THEN "failed" ELSE appState
    /\ gotTerm' = IF e.call = 0 THEN gotTerm ELSE [gotTerm EXCEPT ![e.call] = @ + 1]
    /\ UNCHANGED <<shouldStop, placeholders, got>>

\* worker.onmessage
CtrlReceive ==
    /\ toMain # <<>>
    /\ toMain' = Tail(toMain)
    /\ LET e == Head(toMain)
       IN  CASE e.type = "ready" -> OnReady
             [] e.type = "token" -> OnToken(e)
             [] e.type = "complete" -> OnComplete(e)
             [] e.type = "error" -> OnError(e)
             [] OTHER -> UNCHANGED <<ctrlVars, recvVars>>
    /\ UNCHANGED <<workerVars, toWorker, countVars, postVars, fnVars>>

\* ------------------------------------------------------------------- Next
NextWithin(budget) ==
    \/ Submit(budget)
    \/ ClickStop(budget)
    \/ ResetConversation(budget)
    \/ WorkerReceive
    \/ \E i \in 1..MaxInits : PipelineProgress(i)
    \/ \E i \in 1..MaxInits : PipelineResolve(i)
    \/ \E i \in 1..MaxInits : PipelineReject(i)
    \/ \E i \in 1..MaxInits : InitTimeout(i)
    \/ \E k \in CallIds : EngineFragment(k)
    \/ \E k \in CallIds, usable \in BOOLEAN : EngineReturn(k, usable)
    \/ \E k \in CallIds : EngineRaise(k)
    \/ CtrlReceive

Next == NextWithin(MaxRequests)

Spec == Init /\ [][Next]_vars

\* Scheduling: each event loop runs its queued message handlers, and every
\* engine call eventually returns or raises.
Fairness ==
    /\ WF_vars(WorkerReceive)
    /\ WF_vars(CtrlReceive)
    /\ \A k \in CallIds :
          WF_vars(EngineReturn(k, TRUE) \/ EngineReturn(k, FALSE) \/ EngineRaise(k))

\* the page used for one request more, from a fresh worker
LongNext == NextWithin(MaxLongRequests)

LongSpec == FreshInit /\ [][LongNext]_vars

LiveNext == NextWithin(MaxLiveRequests)

LiveSpec == FreshInit /\ [][LiveNext]_vars /\ Fairness

\* ------------------------------------- the worker under any sequence of messages
\* The listener handles whatever the page posts. Here the page, after the init
\* of initialize(), posts messages of any type in any order; the worker, the
\* engine and the controller's onmessage handler are the ones above.
\* messages of the four known types posted so far
HostPosts == Requests + nInits

PostInit ==
    /\ HostPosts < MaxPosts
    /\ nInits < MaxInits
    /\ nInits' = nInits + 1
    /\ toWorker' = Append(toWorker, Msg("init", 0, "absent"))
    /\ UNCHANGED <<nCalls, nStops, nResets, nOther>>
    /\ UNCHANGED <<workerVars, toMain, ctrlVars, postVars, recvVars, fnVars>>

PostGenerate(d) ==
    /\ HostPosts < MaxPosts
    /\ nCalls < MaxRequests
    /\ nCalls' = nCalls + 1
    /\ toWorker' = Append(toWorker, Msg("generate", nCalls + 1, d))
    /\ UNCHANGED <<nStops, nResets, nInits, nOther>>
    /\ UNCHANGED <<workerVars, toMain, ctrlVars, postVars, recvVars, fnVars>>

PostReset ==
    /\ HostPosts < MaxPosts
    /\ nResets' = nResets + 1
    /\ toWorker' = Append(toWorker, Msg("reset", 0, "absent"))
    /\ UNCHANGED <<nCalls, nStops, nInits, nOther>>
    /\ UNCHANGED <<workerVars, toMain, ctrlVars, postVars, recvVars, fnVars>>

PostStop ==
    /\ HostPosts < MaxPosts
    /\ nStops' = nStops + 1
    /\ toWorker' = Append(toWorker, Msg("stop", 0, "absent"))
    /\ UNCHANGED <<nCalls, nResets, nInits, nOther>>
    /\ UNCHANGED <<workerVars, toMain, ctrlVars, postVars, recvVars, fnVars>>

\* a message whose type the listener has no case for
PostUnknown ==
    /\ nOther < MaxUnknown
    /\ nOther' = nOther + 1
    /\ toWorker' = Append(toWorker, Msg("unknown", 0, "absent"))
    /\ UNCHANGED <<nCalls, nStops, nResets, nInits>>
    /\ UNCHANGED <<workerVars, toMain, ctrlVars, postVars, recvVars, fnVars>>

WorkerNext ==
    \/ PostInit
    \/ \E d \in {"message", "empty", "absent"} : PostGenerate(d)
    \/ PostReset
    \/ PostStop
    \/ PostUnknown
    \/ WorkerReceive
    \/ \E i \in 1..MaxInits : PipelineProgress(i)
    \/ \E i \in 1..MaxInits : PipelineResolve(i)
    \/ \E i \in 1..MaxInits : PipelineReject(i)
    \/ \E i \in 1..MaxInits : InitTimeout(i)
    \/ \E k \in CallIds : EngineFragment(k)
    \/ \E k \in CallIds, usable \in BOOLEAN : EngineReturn(k, usable)
    \/ \E k \in CallIds : EngineRaise(k)
    \/ CtrlReceive

WorkerSpec == FreshInit /\ [][WorkerNext]_vars

\* ------------------------------------- context assembly on any stored history
FnTurns == {UserTurn(1), UserTurn(2), AssistantTurn(<<"reply", 1>>)}

FnHistories == UNION {[1..n -> FnTurns] : n \in 0..MaxFnHist}

CtxInit ==
    /\ WorkerInit /\ CtrlInit
    /\ messageHistory = <<>>
    /\ nCalls = 0 /\ nStops = 0 /\ nResets = 0 /\ nInits = 0 /\ nOther = 0
    /\ toWorker = <<>>
    /\ fnHist \in FnHistories
    /\ fnMsg \in {2, 3}
    /\ fnOut = <<>>

\* finalMessages as generateResponse builds it from messageHistory = fnHist
AssembleContext ==
    /\ fnOut = <<>>
    /\ fnOut' = FinalMessages(fnHist, fnMsg)
    /\ UNCHANGED <<fnHist, fnMsg>>
    /\ UNCHANGED <<workerVars, toWorker, toMain, ctrlVars, countVars, postVars,
                   recvVars>>

CtxSpec == CtxInit /\ [][AssembleContext]_vars

\* ------------------------------------------------------------- properties
H1(h) == h = <<>> \/ h[1].role = "user"
H2(h) == \A i \in 1..(Len(h) - 1) : h[i].role # h[i + 1].role

Finished == {"complete", "failed", "aborted", "rejected"}
TermCount(k) == terms[k].complete + terms[k].error + terms[k].stopped

\* C1: in every reachable state messageHistory is empty or begins with a user
\* turn (H1), and no two consecutive turns have the same role (H2).
C1_HistoryAlternates == H1(messageHistory) /\ H2(messageHistory)

\* a generation has committed into a full history, so the oldest pair was cut,
\* with a stop processed on the way
C1_Witness ==
    /\ Len(messageHistory) = HistoryCap
    /\ \E k \in CallIds : messageHistory[HistoryCap] = AssistantTurn(<<"reply", k>>)
    /\ nStops = 1 /\ toWorker = <<>>

\* C2: when a generate call ends with an error event (engine raised, or the
\* fragment callback aborted), messageHistory equals what it was when the
\* call began.
C2_ErrorCallLeavesHistoryAsBefore ==
    [][\A k \in CallIds :
          (calls[k].status = "running" /\ calls'[k].status \in {"failed", "aborted"})
              => messageHistory' = calls[k].histAtStart]_vars

\* C3: a generate processed while an earlier generation is in flight gets an
\* immediate error event and never reaches the engine, so at most one
\* generation is ever in flight.
C3_BusyGenerateRejected ==
    /\ \A k \in CallIds :
          calls[k].busyAtStart => (calls[k].status = "rejected" /\ terms[k].error = 1)
    /\ Cardinality(Running) <= 1

\* C4: a generation that was in flight when the worker processed stop never
\* commits its user/assistant pair.
C4_StoppedNeverCommits ==
    \A k \in CallIds : calls[k].stopRequested => calls[k].status # "complete"

\* C5: every generate call the worker has finished has exactly one terminal
\* event (complete, error or stopped) posted for it, and no call ever has two.
C5_ExactlyOneTerminal ==
    \A k \in CallIds :
        /\ TermCount(k) <= 1
        /\ calls[k].status \in Finished => TermCount(k) = 1

\* C6: with the engine and both event loops making progress, every generate
\* request the controller dispatched is followed by a complete or error event
\* of that call received by the controller, isGenerating does not stay true,
\* and the chat input does not stay disabled once the app is ready.
C6_GenerateEventuallyTerminates ==
    /\ \A k \in CallIds : (nCalls >= k) ~> (gotTerm[k] > 0)
    /\ isGenerating ~> ~isGenerating
    /\ (appState = "ready" /\ inputDisabled) ~> ~inputDisabled

\* a dispatched request whose terminal event has arrived, input enabled again
C6_Witness ==
    \E k \in CallIds :
        /\ nCalls >= k /\ gotTerm[k] > 0
        /\ ~isGenerating /\ ~inputDisabled /\ nStops = 0

\* the events of call k still in the channel, in order
RECURSIVE OfCall(_, _)
OfCall(q, k) ==
    IF q = <<>> THEN <<>>
    ELSE (IF Head(q).call = k /\ Head(q).type \in {"token", "complete", "error"}
          THEN <<Head(q)>> ELSE <<>>) \o OfCall(Tail(q), k)

C8_NoTokenInterleaving ==
    [][\A k \in CallIds : calls'[k].sent > calls[k].sent => k >= maxTokenCall]_vars

\* C9: a generation cancelled by stop (its fragment callback aborted) is
\* terminated by one stopped event and no error event is emitted for it.
C9_CancelledEndsWithStoppedOnly ==
    \A k \in CallIds :
        calls[k].status = "aborted" => (terms[k].stopped = 1 /\ terms[k].error = 0)

WellFormedContext(c) == c # <<>> /\ H1(c) /\ H2(c)

\* C10: for every stored history and every new user message the context given
\* to the engine begins with a user turn, alternates roles and ends with the
\* new user message.
C10_ContextWellFormed ==
    fnOut # <<>> =>
        /\ WellFormedContext(fnOut)
        /\ fnOut[Len(fnOut)] = UserTurn(fnMsg)

\* C11: messageHistory never holds more than 10 turns after a step, and a
\* commit into a history of 10 turns drops exactly the oldest pair: the other
\* 8 turns keep their order and are followed by the new user/assistant pair.
C11_CapDropsOldestPair ==
    [][/\ Len(messageHistory') <= HistoryCap
       /\ \A k \in CallIds :
             (/\ calls[k].status = "running" /\ calls'[k].status = "complete"
              /\ Len(messageHistory) = HistoryCap)
             => /\ SubSeq(messageHistory', 1, HistoryCap - 2) =
                       SubSeq(messageHistory, 3, HistoryCap)
                /\ messageHistory'[HistoryCap - 1] = UserTurn(k)
                /\ \E usable \in BOOLEAN :
                       messageHistory'[HistoryCap] =
                           AssistantTurn(GeneratedText(k, usable))]_vars

\* two commits into the full prior history: its two oldest pairs are gone and
\* the pairs of both calls are at the end
C11_Witness ==
    /\ Len(messageHistory) = HistoryCap
    /\ messageHistory[1] = PriorHistory[5]
    /\ \E k1, k2 \in CallIds :
          /\ messageHistory[HistoryCap - 3] = UserTurn(k1)
          /\ messageHistory[HistoryCap - 1] = UserTurn(k2)

\* the context c ends with user m1, assistant (the reply of call k1), user m2
EndsWithExchange(c, k1, k2) ==
    /\ Len(c) >= 3
    /\ c[Len(c) - 2] = UserTurn(k1)
    /\ \E usable \in BOOLEAN : c[Len(c) - 1] = AssistantTurn(GeneratedText(k1, usable))
    /\ c[Len(c)] = UserTurn(k2)

\* C12: when a generation k1 has completed and neither a reset nor another
\* engine call has been processed since, the context the next generate k2
\* submits to the engine ends with user m1, assistant r1, user m2.
C12_NextContextEndsWithLastExchange ==
    [][\A k2 \in CallIds :
          (calls[k2].status = "none" /\ calls'[k2].status = "running")
              => \A k1 \in lastDone : EndsWithExchange(calls'[k2].ctx, k1, k2)]_vars

\* the listener handles the message at the head of the queue in this step
Handling(t) ==
    toWorker # <<>> /\ Head(toWorker).type = t /\ toWorker' = Tail(toWorker)

\* the events posted to the controller in this step
Emitted ==
    IF Len(toMain') > Len(toMain)
    THEN SubSeq(toMain', Len(toMain) + 1, Len(toMain')) ELSE <<>>

\* the worker's own state is left as it was in this step
SessionUnchanged ==
    UNCHANGED <<generator, isInitialized, messageHistory, currentAbortController,
                aborted, inits>>

\* C13: a generate message (carrying a payload) handled before an engine load
\* has succeeded, or after it failed, posts one error event, starts no engine
\* call and leaves messageHistory and the rest of the worker state unchanged.
C13_GenerateWhenNotReadyRejected ==
    [][(Handling("generate") /\ Head(toWorker).data # "absent" /\ ~isInitialized)
          => LET k == Head(toWorker).call
             IN  /\ Emitted = <<Ev("error", k, 0)>>
                 /\ calls'[k].status = "rejected"
                 /\ Running' = Running
                 /\ SessionUnchanged]_vars

\* a generate has been rejected, the one engine load has failed, and the
\* controller has received both error events
C13_Witness ==
    /\ \E k \in CallIds :
          calls[k].status = "rejected" /\ terms[k].error = 1 /\ gotTerm[k] = 1
    /\ Len(inits) = 1 /\ inits[1].race = "rejected"
    /\ toWorker = <<>> /\ toMain = <<>>

\* an engine load has been started and its race is not settled
Initializing == \E i \in DOMAIN inits : inits[i].race = "pending"

\* C14: an init message handled while the worker is initialized or while an
\* engine load is still pending starts no engine load, posts no event and
\* changes no worker state.
C14_InitIsIdempotent ==
    [][(Handling("init") /\ (isInitialized \/ Initializing))
          => /\ Emitted = <<>>
             /\ SessionUnchanged
             /\ UNCHANGED calls]_vars

\* an engine load has failed: its race was rejected and the error event posted
InitFailed == \E i \in DOMAIN inits : inits[i].race = "rejected"

\* C15: once an engine load has failed, no later step posts a ready event or
\* the complete event of a generation, whatever messages follow.
C15_FailedStaysUnusable ==
    [][InitFailed =>
          \A j \in 1..Len(Emitted) : Emitted[j].type \notin {"ready", "complete"}]_vars

\* C16: handling a reset message leaves messageHistory empty, whatever it held
\* and whatever is in flight, and posts one reset_complete event.
C16_ResetClearsHistory ==
    [][Handling("reset")
          => /\ messageHistory' = <<>>
             /\ Emitted = <<Ev("reset_complete", 0, 0)>>]_vars

\* a reset has been handled after a generation committed its pair, and again
\* nothing is left
C16_Witness ==
    /\ messageHistory = <<>>
    /\ nResets >= 1 /\ toWorker = <<>>
    /\ \E k \in CallIds : calls[k].status = "complete" /\ ~calls[k].resetRequested

\* C17: a generation that was in flight when the worker handled a reset
\* leaves no turn in messageHistory once it has finished: the reset takes
\* effect after that generation's commit.
C17_ResetSerializedBehindGeneration ==
    \A k \in CallIds :
        (calls[k].resetRequested /\ calls[k].status \in Finished)
            => \A i \in 1..Len(messageHistory) :
                   /\ messageHistory[i] # UserTurn(k)
                   /\ messageHistory[i] # AssistantTurn(<<"reply", k>>)

\* C18: a stop message handled while no generation is in flight posts no
\* event and changes no worker state (so handling it twice is the same as
\* handling it once).
C18_IdleStopHasNoEffect ==
    [][(Handling("stop") /\ Running = {})
          => /\ Emitted = <<>>
             /\ SessionUnchanged
             /\ UNCHANGED calls]_vars

WorkerTypes == {"init", "generate", "reset", "stop"}
CtrlTypes == {"ready", "progress", "token", "complete", "error"}

\* C19: a message of a type the worker's listener has no case for changes no
\* worker state and posts no event; an event of a type the controller's
\* onmessage has no case for changes no controller state (isGenerating among
\* it) and posts nothing; and each side goes on handling whatever is queued.
C19_UnknownTypeIgnored ==
    /\ [](toWorker # <<>> => ENABLED WorkerReceive)
    /\ [](toMain # <<>> => ENABLED CtrlReceive)
    /\ [][/\ (/\ toWorker # <<>> /\ toWorker' = Tail(toWorker)
               /\ Head(toWorker).type \notin WorkerTypes)
              => /\ Emitted = <<>>
                 /\ SessionUnchanged
                 /\ UNCHANGED <<calls, ctrlVars>>
          /\ (/\ toMain # <<>> /\ toMain' = Tail(toMain)
               /\ Head(toMain).type \notin CtrlTypes)
              => UNCHANGED <<ctrlVars, workerVars, toWorker>>]_vars

\* the worker has handled a message of unknown type and a stop, the controller
\* has taken the stopped event, which it has no case for, and the ready event
C19_Witness ==
    /\ nOther = 1 /\ nStops = 1
    /\ toWorker = <<>> /\ toMain = <<>>
    /\ isInitialized /\ appState = "ready"

\* C20: a generate message that carries no message text (no data, or data
\* without a message) is answered by one error event, starts no engine call
\* and changes neither messageHistory nor any other worker state.
C20_MalformedGenerateRejected ==
    [][(Handling("generate") /\ Head(toWorker).data # "message")
          => LET k == Head(toWorker).call
             IN  /\ Emitted = <<Ev("error", k, 0)>>
                 /\ Running' = Running
                 /\ SessionUnchanged]_vars

\* the last turn of a history
LastTurn(h) == h[Len(h)]

\* C21: an engine call whose output yields no assistant reply ends with an
\* error event and commits nothing, so every call that ends with a commit and
\* a complete event has committed the reply extracted from the output.
C21_UnusableOutputIsFailure ==
    [][\A k \in CallIds :
          (calls[k].status = "running" /\ calls'[k].status = "complete")
              => LastTurn(messageHistory') = AssistantTurn(<<"reply", k>>)]_vars

Outstanding == {k \in 1..nCalls : calls[k].status \in {"none", "running"}}

\* C23: at most one generate request dispatched by the controller is
\* outstanding at any time.
C23_ControllerSingleFlight == Cardinality(Outstanding) <= 1

\* C24: the step that dispatches a stop request leaves isGenerating as it
\* was; only the handling of a worker event changes it afterwards.
C24_StopLeavesIsGenerating ==
    [][nStops' # nStops
          => /\ toWorker' = Append(toWorker, Msg("stop", 0, "absent"))
             /\ isGenerating' = isGenerating]_vars

\* the controller handles the event at the head of its queue in this step
Receiving(t) ==
    toMain # <<>> /\ Head(toMain).type = t /\ toMain' = Tail(toMain)

\* C25: whenever the controller handles a complete event, isGenerating is
\* false afterwards and the bubble that was the current placeholder has lost
\* the id by which token events find it.
C25_CompleteFinalizesPlaceholder ==
    [][Receiving("complete")
          => /\ ~isGenerating'
             /\ LET c == CurrentMessage
                IN  c # 0 => ~placeholders'[c].hasId]_vars

\* C26: the bubble created by the submit of call k holds exactly the tokens of
\* call k the controller has received, in arrival order, and nothing else.
C26_TokensGoToOwnPlaceholder ==
    \A i \in 1..Len(placeholders) :
        LET k == placeholders[i].call
        IN  placeholders[i].text = [j \in 1..got[k] |-> <<k, j>>]

\* C27: once initialization has succeeded, the chat input and the send button
\* are disabled exactly while isGenerating is true.
C27_InputDisabledIffGenerating ==
    appState = "ready" =>
        /\ inputDisabled = isGenerating
        /\ sendDisabled = isGenerating

\* the specified left-to-right rule: a turn is dropped when the previously
\* kept turn has its role, or when nothing is kept yet and it is no user turn
RECURSIVE RuleFrom(_, _, _)
RuleFrom(msgs, i, kept) ==
    IF i > Len(msgs) THEN kept
    ELSE LET drop == IF kept = <<>> THEN msgs[i].role # "user"
                     ELSE LastTurn(kept).role = msgs[i].role
         IN  RuleFrom(msgs, i + 1, IF drop THEN kept ELSE Append(kept, msgs[i]))

RuleKeeps(msgs) == RuleFrom(msgs, 1, <<>>)

\* C28: for every candidate sequence (the retained history followed by the
\* new user message) the validation loop keeps exactly the turns the
\* specified left-to-right rule keeps.
C28_ValidationKeepsWhatRuleKeeps ==
    fnOut # <<>> =>
        ValidMessages(Messages(fnHist, fnMsg)) = RuleKeeps(Messages(fnHist, fnMsg))

\* generate calls for which the worker has assembled a context
Assembled == {k \in CallIds : calls[k].status \in {"running", "complete", "failed", "aborted"}}

\* C29: the context of a call is the most recent W turns of the history the
\* call found, W being the cap of the commit step, followed by the new user
\* message; a well-formed history at the cap is in the context as a whole.
C29_ContextWindowIsHistoryCap ==
    \A k \in Assembled :
        calls[k].ctx = Append(SliceLast(calls[k].histAtStart, HistoryCap), UserTurn(k))

\* the specified commit step: append the user turn unless the last turn is a
\* user turn, append the assistant turn, truncate to W, re-validate
SpecifiedCommit(h, m, text) ==
    LET h1 == IF h # <<>> /\ LastTurn(h).role = "user" THEN h
              ELSE Append(h, UserTurn(m))
        h2 == Append(h1, AssistantTurn(text))
    IN  RuleKeeps(SliceLast(h2, HistoryCap))

\* C30: a generate call for m that succeeds with reply r from a history H
\* satisfying H1 and H2 leaves the last 10 turns of H, user m, assistant r;
\* that is the result of the specified commit step, and from the empty history
\* it is exactly [user m, assistant r].
C30_CommitEqualsSpecifiedCommit ==
    [][\A k \in CallIds :
          (/\ calls[k].status = "running" /\ calls'[k].status = "complete"
           /\ H1(messageHistory) /\ H2(messageHistory))
              => \E usable \in BOOLEAN :
                    LET r == GeneratedText(k, usable)
                        exchange == <<UserTurn(k), AssistantTurn(r)>>
                    IN  /\ messageHistory' =
                               SliceLast(messageHistory \o exchange, HistoryCap)
                        /\ messageHistory' = SpecifiedCommit(messageHistory, k, r)
                        /\ messageHistory = <<>> => messageHistory' = exchange]_vars

\* C30 witness: a call has succeeded from a history at the cap, whose oldest
\* exchange was dropped for the new one.
C30_Witness ==
    /\ calls[1].status = "complete"
    /\ messageHistory = SubSeq(PriorHistory, 3, HistoryCap)
                            \o <<UserTurn(1), AssistantTurn(<<"reply", 1>>)>>

\* the events of type t, for call k, among those posted in this step
EmittedOf(t, k) ==
    {j \in 1..Len(Emitted) : Emitted[j].type = t /\ Emitted[j].call = k}

\* the engine loads whose race goes from pending to outcome o in this step
SettledAs(o) ==
    {i \in DOMAIN inits : inits[i].race = "pending" /\ inits'[i].race = o}

\* C31: an initialization has one outcome. A ready event is posted only by the
\* step in which the race of a load is won by the load, an initialization
\* error only by the step in which it is lost, a settled race never changes,
\* and a load that finishes after its timeout has fired posts nothing and
\* leaves generator and isInitialized as they were.
C31_InitHasOneOutcome ==
    [][/\ Cardinality(EmittedOf("ready", 0)) = Cardinality(SettledAs("resolved"))
       /\ Cardinality(EmittedOf("error", 0)) = Cardinality(SettledAs("rejected"))
       /\ \A i \in DOMAIN inits :
             /\ inits[i].race # "pending" => inits'[i].race = inits[i].race
             /\ (inits[i].race = "rejected" /\ inits'[i].pipe # inits[i].pipe)
                   => /\ Emitted = <<>>
                      /\ generator' = generator
                      /\ isInitialized' = isInitialized]_vars

\* C31 witness: the timeout fired and its error was posted while the load was
\* still running (it reported progress afterwards); the load has finished
\* since, and the worker still has no generator.
C31_Witness ==
    /\ Len(inits) = 1
    /\ inits[1].race = "rejected" /\ inits[1].pipe = "done"
    /\ generator = "null" /\ ~isInitialized
    /\ \E j \in 1..(Len(toMain) - 1) :
          toMain[j] = Ev("error", 0, 0) /\ toMain[j + 1] = Ev("progress", 0, 1)

\* the pair of call k is appended to messageHistory in this step
PairAppended(k) ==
    /\ messageHistory' # messageHistory
    /\ Len(messageHistory') >= 2
    /\ messageHistory'[Len(messageHistory') - 1] = UserTurn(k)
    /\ LastTurn(messageHistory').role = "assistant"
    /\ SubSeq(messageHistory', 1, Len(messageHistory') - 2) =
           SliceLast(messageHistory, Len(messageHistory') - 2)

\* C32: a step posts the complete event of a call exactly when it appends the
\* user/assistant pair of that call to messageHistory, and it posts it once;
\* so the complete events posted and the pairs appended are equal in number
\* at every point.
C32_CompleteIffCommitted ==
    [][\A k \in CallIds :
          /\ (EmittedOf("complete", k) # {}) <=> PairAppended(k)
          /\ Cardinality(EmittedOf("complete", k)) <= 1
          /\ terms'[k].complete - terms[k].complete =
                 Cardinality(EmittedOf("complete", k))]_vars

\* C32 witness: two calls have completed and both pairs are in the history,
\* while a third call ended with an error and left nothing.
C32_Witness ==
    /\ terms[1].complete = 1 /\ terms[2].complete = 1 /\ terms[3].error = 1
    /\ \E u1, u2 \in BOOLEAN :
          messageHistory = <<UserTurn(1), AssistantTurn(GeneratedText(1, u1)),
                             UserTurn(2), AssistantTurn(GeneratedText(2, u2))>>

\* C33: a generation that was in flight when the worker handled a stop
\* posts no token event afterwards, whatever the worker handles in between.
C33_NoTokenAfterStop ==
    [][\A k \in CallIds :
          calls[k].stopRequested => EmittedOf("token", k) = {}]_vars

\* C34: a generation is cancelled only by a stop the worker handled while it
\* was in flight: a generation in flight with no such stop finds its signal
\* unaborted at the next fragment, and every generation that ended by the
\* abort had such a stop. A stop handled before the generate message never
\* cancels the generation.
C34_FreshSignalPerGeneration ==
    \A k \in CallIds :
        /\ (calls[k].status = "running" /\ ~calls[k].stopRequested)
              => ~CallbackAborts
        /\ calls[k].status = "aborted" => calls[k].stopRequested

\* C34 witness: a stop was handled after generation 1 had ended and aborted
\* its controller; generation 2, started afterwards, streamed a fragment and
\* completed.
C34_Witness ==
    /\ calls[1].status = "complete" /\ ~calls[1].stopRequested
    /\ 1 \in aborted
    /\ calls[2].status = "complete" /\ calls[2].sent = 1
    /\ ~calls[2].stopRequested

\* C35: when the controller handles the complete or error event of an earlier
\* generation, one the user stopped, while the latest generation is in flight
\* (isGenerating true, no terminal event of it received), isGenerating stays
\* true, the input stays disabled and the latest placeholder is left as it is.
C35_StaleTerminalIgnored ==
    [][(/\ toMain # <<>> /\ toMain' = Tail(toMain)
        /\ Head(toMain).type \in {"complete", "error"}
        /\ Head(toMain).call \in 1..(nCalls - 1)
        /\ nStops > 0
        /\ isGenerating /\ gotTerm[nCalls] = 0)
          => /\ isGenerating' /\ inputDisabled'
             /\ \A i \in 1..Len(placeholders) :
                   placeholders[i].call = nCalls
                       => placeholders'[i].hasId = placeholders[i].hasId]_vars

\* the user messages a history can hold: those of the prior exchanges and
\* those of the calls
MessageIds == (-(HistoryCap \div 2)..-1) \cup CallIds

\* the turns at i and i + 1 are the user message of one call and its reply
IsPairAt(h, i) ==
    \E m \in MessageIds :
        /\ h[i] = UserTurn(m)
        /\ \/ h[i + 1] = AssistantTurn(<<"reply", m>>)
           \/ h[i + 1] = AssistantTurn(Apology)

\* C36: in every state a handler can find, messageHistory has even length and
\* is a sequence of pairs, each the user message of one call followed at once
\* by the reply committed for that call.
C36_HistoryIsWholePairs ==
    /\ Len(messageHistory) % 2 = 0
    /\ \A i \in 1..Len(messageHistory) : i % 2 = 1 => IsPairAt(messageHistory, i)

\* C36 witness: two generations overlapped in the worker, the later one
\* committed first, and both pairs are whole.
C36_Witness ==
    /\ calls[2].busyAtStart
    /\ messageHistory = <<UserTurn(2), AssistantTurn(<<"reply", 2>>),
                          UserTurn(1), AssistantTurn(<<"reply", 1>>)>>

\* C37: a generate request is dispatched only by a step taken after the
\* controller has received ready: while initialize() is pending, and after it
\* was rejected by an initialization error, no request has been dispatched,
\* none is queued and the worker has started none.
C37_GenerateOnlyAfterReady ==
    appState # "ready" =>
        /\ nCalls = 0
        /\ \A j \in 1..Len(toWorker) : toWorker[j].type # "generate"
        /\ \A k \in CallIds : calls[k].status = "none"

\* C37 witness: the ready event has been received and the first request is
\* on its way to the worker.
C37_Witness ==
    /\ appState = "ready" /\ nCalls = 1
    /\ toWorker = <<Msg("generate", 1, "message")>>
    /\ toMain = <<>>

\* generate calls that ended with an error event after reaching the engine
Errored == {k \in CallIds : calls[k].status \in {"failed", "aborted"}}

\* C38: the step in which a generation ends with an error leaves
\* messageHistory and the generator as they were; the generate message handled
\* next is accepted (an engine call is started, no error is posted) with the
\* context assembled from messageHistory, which is the history the failed
\* call found when nothing was committed or reset meanwhile; and when a call
\* that follows a failed one succeeds, it appends its pair and posts complete.
C38_UsableAfterError ==
    [][/\ \A k \in CallIds :
             (calls[k].status = "running" /\ calls'[k].status \in {"failed", "aborted"})
                 => /\ messageHistory' = messageHistory
                    /\ generator' = "loaded"
                    /\ Emitted = <<Ev("error", k, 0)>>
       /\ (/\ Handling("generate") /\ Head(toWorker).data # "absent"
           /\ currentAbortController \in Errored)
             => LET k1 == currentAbortController
                    k2 == Head(toWorker).call
                IN  /\ calls'[k2].status = "running"
                    /\ Emitted = <<>>
                    /\ calls'[k2].ctx = FinalMessages(messageHistory, k2)
                    /\ messageHistory' = messageHistory
                    /\ (lastDone = {} /\ nResets = 0)
                          => messageHistory = calls[k1].histAtStart
       /\ \A k2 \in CallIds :
             (/\ calls[k2].status = "running" /\ calls'[k2].status = "complete"
              /\ \E k1 \in Errored : k1 < k2)
                 => /\ PairAppended(k2)
                    /\ Emitted = <<Ev("complete", k2, 0)>>]_vars

\* C38 witness: from a full history, call 1 failed in the engine and call 2,
\* handled next, took its context from the same history, committed and
\* completed; the controller has received both terminal events.
C38_Witness ==
    /\ calls[1].status = "failed" /\ calls[1].histAtStart = PriorHistory
    /\ calls[2].status = "complete" /\ calls[2].histAtStart = PriorHistory
    /\ calls[2].ctx = Append(SubSeq(PriorHistory, 5, HistoryCap), UserTurn(2))
    /\ messageHistory = SubSeq(PriorHistory, 3, HistoryCap)
                            \o <<UserTurn(2), AssistantTurn(<<"reply", 2>>)>>
    /\ gotTerm[1] = 1 /\ gotTerm[2] = 1

====
